---- MODULE Spec2Model ----
(***************************************************************************)
(* On-demand definition cache of yalose-flashcards.                        *)
(*                                                                         *)
(*   src/src/utils/definitionsCache.js   the IndexedDB cache facade        *)
(*   src/src/components/FlashCard.jsx    the resolver and staleness guard  *)
(*   src/src/App.jsx                     mounts one FlashCard per word id, *)
(*                                       keeps the known-words list        *)
(*   src/api/definition.js               the remote definition handler     *)
(*   scripts/build_slim_vocabulary.js    builds the definitions map (the   *)
(*                                       script follows the cache facade   *)
(*                                       in src/src/utils/definitionsCache.js) *)
(*                                                                         *)
(* Every IndexedDB transaction is one atomic step: readwrite transactions  *)
(* over the one object store are serialised by the browser.  A call that   *)
(* opens two transactions (cacheDefinition: the put, then evictIfNeeded)   *)
(* is two steps, and other transactions may run between them.              *)
(***************************************************************************)
EXTENDS Integers, Sequences, FiniteSets, Bags, TLC

\* ------------------------------------------------------------------ bounds
NumKeys == 2        \* word ids are 1..NumKeys, ordered as IndexedDB orders keys
MaxTime == 1        \* Date.now() takes the values 0..MaxTime
MaxReq == 2         \* fetchDefinitions activations that have not returned yet
MaxWords == 3       \* words in vocabulary.json when the definitions map is built
MaxKnown == 3       \* entries of the known-words list
MaxFetches == 2     \* vocabulary fetches in flight at once

\* ------------------------------------------------------- program constants
MAX_ENTRIES == 1    \* definitionsCache.js:9, 1000 in the source, scaled down
MAX_AGE_DAYS == 1   \* definitionsCache.js:10, 30 in the source, scaled down
MsPerDay == 1       \* definitionsCache.js:195, 24*60*60*1000, scaled down

Keys == 1..NumKeys

\* ------------------------------------------------------------------ values
PENDING == "Definition pending..."
DefText == [k \in Keys |-> <<"d1", "d2", "d3", "d4", "d5", "d6">>[k]]
LinkText == [k \in Keys |-> <<"rae1", "rae2", "rae3", "rae4", "rae5", "rae6">>[k]]

\* what getCachedDefinition resolves to: null, or {definitions, rae_link}
NullRes == [found |-> FALSE, definitions |-> <<>>, rae_link |-> "null"]
Found(defs, link) == [found |-> TRUE, definitions |-> defs, rae_link |-> link]

RealValue(k) == Found(<<DefText[k]>>, LinkText[k])
PendingValue(k) == Found(<<PENDING>>, LinkText[k])
EmptyValue(k) == Found(<<>>, LinkText[k])

\* FlashCard.jsx isPlaceholder: empty, or exactly the one sentinel entry
isPlaceholder(defs) ==
    IF Len(defs) = 0 THEN TRUE
    ELSE IF Len(defs) = 1 /\ defs[1] = PENDING THEN TRUE
    ELSE FALSE

\* ------------------------------------------------------------------- state
VARIABLES
    now,          \* the value Date.now() returns
    dbPromise,    \* the module's cached open: "null", "resolved", "rejected"
    store,        \* the object store: wordId -> [definitions, rae_link, cachedAt]
    calls,        \* direct cacheDefinition calls between their put and their eviction,
                  \* one caller per word id: wordId -> the value it wrote
    evictFaults,  \* history: the worst an eviction pass has met so far: "none",
                  \* "scan" (a failed count or cursor request) or "delete"
    ret,          \* history: the last facade step of a direct caller and its result
    recency,      \* history: the keys inserted, least recently touched first
    activeId,     \* word.id of the mounted FlashCard, its currentWordIdRef.current
    ui,           \* the mounted FlashCard's definitions state (useState)
    reqs,         \* the fetchDefinitions activations that have not returned yet, a bag
    file,         \* api/data/definitions.json as readFileSync and JSON.parse find it
    definitions,  \* definition.js: the map loaded at cold start, or not loaded yet
    http,         \* history: the last request the handler answered and its response
    words,        \* build script: vocabularyData.words
    wordIndex,    \* build script: the position of the loop over the words
    definitionsMap, \* build script: the map the loop has built so far
    vocabulary,   \* App: the words in rotation, or not loaded yet
    currentIndex, \* App: the position of the word shown, from 0
    knownWords,   \* App: the ids marked as known, in the order they were marked
    exitDirection, \* App: "null", or the side the card is sliding out to
    loading,      \* App: no vocabulary has arrived yet
    error,        \* App: a vocabulary fetch has failed
    localStorage, \* the list stored under 'yalose-known-words'
    timer,        \* App: the pending setTimeout callback with what its closure holds
    fetches       \* App: vocabulary fetches in flight, each the knownWords of its effect

cardVars == <<activeId, ui, reqs>>
apiVars == <<calls, evictFaults, ret, recency>>
buildVars == <<words, wordIndex, definitionsMap>>
appVars == <<vocabulary, currentIndex, knownWords, exitDirection, loading, error,
             localStorage, timer, fetches>>
\* everything outside the card and its cache
srvVars == <<file, definitions, http, buildVars, appVars>>
vars == <<now, dbPromise, store, calls, evictFaults, ret, recency, activeId, ui, reqs,
          file, definitions, http, words, wordIndex, definitionsMap,
          vocabulary, currentIndex, knownWords, exitDirection, loading, error,
          localStorage, timer, fetches>>

\* ret.later: the clock has advanced since that step (kept for clearOldEntries)
\* ret.threw: the call's promise was rejected instead of resolved
\* ret.rep: what the same call returned just before, at the same clock reading
\*          and without a fault, or -1
Ret(op, key, res, n, ok) ==
    [op |-> op, key |-> key, res |-> res, n |-> n, ok |-> ok, later |-> FALSE,
     threw |-> FALSE,
     rep |-> IF ret.op = op /\ ret.key = key /\ ret.ok /\ ~ret.later /\ op = "clearOldEntries"
             THEN ret.n ELSE -1]

NoRet == [op |-> "none", key |-> 0, res |-> NullRes, n |-> 0, ok |-> TRUE,
          later |-> FALSE, threw |-> FALSE, rep |-> -1]

\* ----------------------------------------------------------- object store
Entry(v, t) == [definitions |-> v.definitions, rae_link |-> v.rae_link, cachedAt |-> t]

Size(s) == Cardinality(DOMAIN s)

Without(s, ks) == [k \in DOMAIN s \ ks |-> s[k]]

\* mutant of PutEntry: store.add(entry), which leaves an existing record alone
AddEntry(s, k, v, t) ==
    [j \in DOMAIN s \cup {k} |-> IF j \in DOMAIN s THEN s[j] ELSE Entry(v, t)]

\* store.put(entry): insert or replace by key path wordId
PutEntry(s, k, v, t) == [j \in DOMAIN s \cup {k} |-> IF j = k THEN Entry(v, t) ELSE s[j]]

\* The 'cachedAt' index: records by cachedAt, equal cachedAt by primary key
IndexBefore(s, a, b) ==
    \/ s[a].cachedAt < s[b].cachedAt
    \/ s[a].cachedAt = s[b].cachedAt /\ a < b

\* the first n records an index cursor visits
FirstOfIndex(s, n) ==
    {k \in DOMAIN s : Cardinality({j \in DOMAIN s : IndexBefore(s, j, k)}) < n}

\* what a store.get(k) that succeeds hands to the caller
Lookup(s, k) ==
    IF k \in DOMAIN s THEN Found(s[k].definitions, s[k].rae_link) ELSE NullRes

\* openDB: the first call opens, every later call reuses dbPromise
OpenDB(outcome) == IF dbPromise = "null" THEN outcome ELSE dbPromise

OpenOutcomes == IF dbPromise = "null" THEN {"resolved", "rejected"} ELSE {dbPromise}

\* ------------------------------------------------- the facade's transactions
\* Each operator is one call's transaction on store s: the store it leaves and
\* what the call resolves to.  db is what openDB settled to; fault names the
\* request that fails ("none": no request fails); F is the set of keys whose
\* delete request fails: the record stays and is counted as deleted.

\* mutant of GetOutcome: a miss leaves an empty record behind for the key
GetOutcomeCreates(s, k, db, fault) ==
    IF db = "rejected" \/ fault = "get" THEN [store |-> s, res |-> NullRes]
    ELSE IF k \in DOMAIN s
         THEN [store |-> IF fault = "touch" THEN s
                         ELSE [s EXCEPT ![k].cachedAt = now],
               res |-> Lookup(s, k)]
         ELSE [store |-> PutEntry(s, k, NullRes, now), res |-> NullRes]

\* mutant of GetOutcome: the read leaves cachedAt as it was
GetOutcomeNoTouch(s, k, db, fault) ==
    IF db = "rejected" \/ fault = "get" THEN [store |-> s, res |-> NullRes]
    ELSE [store |-> s, res |-> Lookup(s, k)]

\* getCachedDefinition(k): get, then touch cachedAt
GetOutcome(s, k, db, fault) ==
    IF db = "rejected" \/ fault = "get" THEN [store |-> s, res |-> NullRes]
    ELSE IF k \in DOMAIN s
         THEN [store |-> IF fault = "touch" THEN s
                         ELSE [s EXCEPT ![k].cachedAt = now],
               res |-> Lookup(s, k)]
         ELSE [store |-> s, res |-> NullRes]

\* cacheDefinition(k, v), the put: written is whether evictIfNeeded follows
PutOutcome(s, k, v, db, fault) ==
    IF db = "rejected" \/ fault = "put" THEN [store |-> s, written |-> FALSE]
    ELSE [store |-> PutEntry(s, k, v, now), written |-> TRUE]

\* evictIfNeeded: count, then a cursor over the index deleting count - MAX_ENTRIES
EvictTargets(s) ==
    IF Size(s) > MAX_ENTRIES THEN FirstOfIndex(s, Size(s) - MAX_ENTRIES) ELSE {}

\* mutant of EvictIfNeeded: the bound is tested one entry late
EvictIfNeededLate(s, fault, F) ==
    IF fault = "count" THEN s
    ELSE IF Size(s) > MAX_ENTRIES + 1
         THEN IF fault = "cursor" THEN s
              ELSE Without(s, EvictTargets(s) \ F)
         ELSE s

EvictIfNeeded(s, fault, F) ==
    IF fault = "count" THEN s
    ELSE IF Size(s) > MAX_ENTRIES
         THEN IF fault = "cursor" THEN s
              ELSE Without(s, EvictTargets(s) \ F)
         ELSE s

EvictChoices(s) ==
    {<<"none", {}>>, <<"count", {}>>}
    \cup (IF Size(s) > MAX_ENTRIES
          THEN {<<"cursor", {}>>}
               \cup {<<"delete", F>> : F \in SUBSET EvictTargets(s) \ {{}}}
          ELSE {})

\* clearOldEntries(maxAgeDays): a cursor over IDBKeyRange.upperBound(cutoffTime)
CutoffTime(maxAgeDays) == now - (maxAgeDays * MsPerDay)

OldEntries(s, maxAgeDays) == {k \in DOMAIN s : s[k].cachedAt <= CutoffTime(maxAgeDays)}

\* mutant of ClearOldOutcome: the cursor is not continued past its first record
ClearOldOutcomeFirstOnly(s, maxAgeDays, db, fault, F) ==
    IF db = "rejected" \/ fault = "cursor" THEN [store |-> s, n |-> 0]
    ELSE LET old == OldEntries(s, maxAgeDays)
             first == {k \in old : \A j \in old : j = k \/ IndexBefore(s, k, j)}
         IN  [store |-> Without(s, first \ F), n |-> Cardinality(first)]

ClearOldOutcome(s, maxAgeDays, db, fault, F) ==
    IF db = "rejected" \/ fault = "cursor" THEN [store |-> s, n |-> 0]
    ELSE [store |-> Without(s, OldEntries(s, maxAgeDays) \ F),
          n |-> Cardinality(OldEntries(s, maxAgeDays))]

ClearChoices(s, maxAgeDays) ==
    {<<"none", {}>>, <<"cursor", {}>>}
    \cup {<<"delete", F>> : F \in SUBSET OldEntries(s, maxAgeDays) \ {{}}}

\* getCacheSize(): count
SizeOutcome(s, db, fault) == IF db = "rejected" \/ fault = "count" THEN 0 ELSE Size(s)

\* mutant of ClearOutcome: only the oldest record of the index is removed
ClearOutcomeOldest(s, db, fault) ==
    IF db = "rejected" \/ fault = "clear" THEN s ELSE Without(s, FirstOfIndex(s, 1))

\* clearCache(): clear
ClearOutcome(s, db, fault) ==
    IF db = "rejected" \/ fault = "clear" THEN s ELSE Without(s, DOMAIN s)

\* mutant of ClearRejects: a failed open is not caught either
ClearRejectsOpenToo(db, fault) == db = "rejected" \/ fault = "clear"

\* clearCache(): request.onerror rejects the promise the call returns
ClearRejects(db, fault) == db = "resolved" /\ fault = "clear"

Worst(sofar, fault) ==
    IF sofar = "delete" \/ fault = "delete" THEN "delete"
    ELSE IF sofar = "scan" \/ fault \in {"count", "cursor"} THEN "scan"
    ELSE "none"

\* ------------------------------------------------ direct callers of the facade
\* time passes
Tick ==
    /\ now < MaxTime
    /\ now' = now + 1
    /\ ret' = IF ret.op = "clearOldEntries" THEN [ret EXCEPT !.later = TRUE] ELSE ret
    /\ UNCHANGED <<srvVars, dbPromise, store, calls, evictFaults, recency, cardVars>>

\* getCachedDefinition over an openDB that opens the database at every call
GetCachedDefinitionReopens(k) ==
    \E db \in {"resolved", "rejected"}, fault \in {"none", "get", "touch"} :
        LET out == GetOutcome(store, k, db, fault)
        IN  /\ dbPromise' = db
            /\ store' = out.store
            /\ ret' = Ret("getCachedDefinition", k, out.res, 0,
                          db = "resolved" /\ fault = "none")
            /\ UNCHANGED <<srvVars, now, calls, evictFaults, recency, cardVars>>

GetCachedDefinition(k) ==
    \E o \in OpenOutcomes, fault \in {"none", "get", "touch"} :
        LET db == OpenDB(o)
            out == GetOutcome(store, k, db, fault)
        IN  /\ dbPromise' = db
            /\ store' = out.store
            /\ ret' = Ret("getCachedDefinition", k, out.res, 0,
                          db = "resolved" /\ fault = "none")
            /\ UNCHANGED <<srvVars, now, calls, evictFaults, recency, cardVars>>

\* cacheDefinition(k, v) up to the end of its put transaction; ret.n of a put
\* is the number of records it replaced
CachePut(k, v) ==
    /\ k \notin DOMAIN calls
    /\ \E o \in OpenOutcomes, fault \in {"none", "put"} :
        LET db == OpenDB(o)
            out == PutOutcome(store, k, v, db, fault)
        IN  /\ dbPromise' = db
            /\ store' = out.store
            /\ calls' = IF out.written THEN (k :> v) @@ calls ELSE calls
            /\ ret' = IF out.written THEN Ret("put", 0, NullRes, Size(store) + 1 - Size(out.store), TRUE)
                      ELSE Ret("cacheDefinition", k, v, 0, FALSE)
    /\ UNCHANGED <<srvVars, now, evictFaults, recency, cardVars>>

\* cacheDefinition, its evictIfNeeded transaction, after which the call resolves
CacheEvict(k) ==
    /\ k \in DOMAIN calls
    /\ \E c \in EvictChoices(store) :
        /\ store' = EvictIfNeeded(store, c[1], c[2])
        /\ evictFaults' = Worst(evictFaults, c[1])
        /\ ret' = Ret("cacheDefinition", k, calls[k],
                      Size(store) - Size(store'), c[1] = "none")
    /\ calls' = Without(calls, {k})
    /\ UNCHANGED <<srvVars, now, dbPromise, recency, cardVars>>

AgeChoices == 0..MAX_AGE_DAYS

ClearOldEntries(maxAgeDays) ==
    \E o \in OpenOutcomes, c \in ClearChoices(store, maxAgeDays) :
        LET db == OpenDB(o)
            out == ClearOldOutcome(store, maxAgeDays, db, c[1], c[2])
        IN  /\ dbPromise' = db
            /\ store' = out.store
            /\ ret' = Ret("clearOldEntries", maxAgeDays, NullRes, out.n,
                          db = "resolved" /\ c[1] = "none")
            /\ UNCHANGED <<srvVars, now, calls, evictFaults, recency, cardVars>>

GetCacheSize ==
    \E o \in OpenOutcomes, fault \in {"none", "count"} :
        LET db == OpenDB(o)
        IN  /\ dbPromise' = db
            /\ ret' = Ret("getCacheSize", 0, NullRes, SizeOutcome(store, db, fault),
                          db = "resolved" /\ fault = "none")
            /\ UNCHANGED <<srvVars, now, store, calls, evictFaults, recency, cardVars>>

ClearCache ==
    \E o \in OpenOutcomes, fault \in {"none", "clear"} :
        LET db == OpenDB(o)
        IN  /\ dbPromise' = db
            /\ store' = ClearOutcome(store, db, fault)
            /\ ret' = [Ret("clearCache", 0, NullRes, 0, db = "resolved" /\ fault = "none")
                        EXCEPT !.threw = ClearRejects(db, fault)]
            /\ UNCHANGED <<srvVars, now, calls, evictFaults, recency, cardVars>>

\* ---------------------------------------------------------- specification
\* the values direct callers write: the facade stores whatever it is given
ApiValues(k) == {RealValue(k), PendingValue(k)}

EmptyStore == [k \in {} |-> Entry(NullRes, 0)]

NoCalls == [k \in {} |-> NullRes]

\* useState's initial values
NoDefs == [set |-> FALSE, list |-> <<>>]

SomeDefs(list) == [set |-> TRUE, list |-> list]

\* src and dropped are history: the requestedWordId of the activation that set
\* definitions, and whether an activation has returned at a stale check since
\* the word last changed
InitUi == [definitions |-> NoDefs, raeLink |-> "null", loading |-> FALSE,
           error |-> "null", show |-> FALSE, src |-> 0, dropped |-> FALSE]

\* ------------------------------------------------------ definition handler
\* word ids the build may have written to definitions.json
StoredIds == {"w1", "w2"}

StoredText == [id \in StoredIds |-> IF id = "w1" THEN "d1" ELSE "d2"]

\* what the build writes for one word: its definitions, or the sentinel
WordData(id) ==
    {[definitions |-> <<StoredText[id]>>, rae_link |-> "rae"],
     [definitions |-> <<PENDING>>, rae_link |-> "rae"]}

EmptyMap == [id \in {} |-> [definitions |-> <<>>, rae_link |-> "rae"]]

FileMaps ==
    UNION {{m \in [ids -> UNION {WordData(id) : id \in ids}] :
                \A id \in ids : m[id] \in WordData(id)} : ids \in SUBSET StoredIds}

\* the file parses to a map, or readFileSync / JSON.parse throws
Files == {[ok |-> FALSE, map |-> EmptyMap]} \cup {[ok |-> TRUE, map |-> m] : m \in FileMaps}

\* let definitions = null
NotLoaded == [loaded |-> FALSE, map |-> EmptyMap]

NoHttp == [method |-> "none", type |-> "undefined", wordId |-> "", status |-> 0,
           definitions |-> NoDefs, rae_link |-> "undefined"]

\* -------------------------------------------------- build of the definitions map
\* word ids are hashes the vocabulary pipeline generates
HashIds == {"h1", "h2"}

\* a word of vocabulary.json: definitions may be missing, empty of content
\* (the sentinel) or real; rae_link may be missing
VocabularyWords ==
    [id : HashIds,
     definitions : {NoDefs, SomeDefs(<<PENDING>>), SomeDefs(<<"a">>), SomeDefs(<<"a", "b">>)},
     rae_link : {"undefined", "rae"}]

Vocabularies == UNION {[1..n -> VocabularyWords] : n \in 0..MaxWords}

\* word.definitions || []
DefsOrEmpty(d) == IF d.set THEN d.list ELSE <<>>

\* word.rae_link || null
LinkOrNull(l) == IF l = "undefined" THEN "null" ELSE l

\* newDefs.length === 0 || (newDefs.length === 1 && newDefs[0] === 'Definition pending...')
IsPendingDefs(defs) == Len(defs) = 0 \/ (Len(defs) = 1 /\ defs[1] = PENDING)

\* { definitions: newDefs, rae_link: word.rae_link || null }
MapEntry(word) ==
    [definitions |-> DefsOrEmpty(word.definitions), rae_link |-> LinkOrNull(word.rae_link)]

\* mutant of ShouldReplace: a later word with real definitions always wins
ShouldReplaceAnyReal(word, existingDef) == ~IsPendingDefs(DefsOrEmpty(word.definitions))

\* !isPending && existingIsPending
ShouldReplace(word, existingDef) ==
    ~IsPendingDefs(DefsOrEmpty(word.definitions)) /\ IsPendingDefs(existingDef.definitions)

\* one iteration of the loop over vocabularyData.words
AddWord(map, word) ==
    IF word.id \in DOMAIN map
    THEN IF ShouldReplace(word, map[word.id])
         THEN [map EXCEPT ![word.id] = MapEntry(word)]
         ELSE map
    ELSE [j \in DOMAIN map \cup {word.id} |-> IF j = word.id THEN MapEntry(word) ELSE map[j]]

BuildStep ==
    /\ wordIndex <= Len(words)
    /\ definitionsMap' = AddWord(definitionsMap, words[wordIndex])
    /\ wordIndex' = wordIndex + 1
    /\ UNCHANGED <<words, file, definitions, http, now, dbPromise, store, apiVars, cardVars,
                   appVars>>

\* ------------------------------------------------------ the known-words list
\* vocabulary.json's words, by id, as every fetch of the file returns them
AllWords == [i \in 1..NumKeys |-> i]

Range(seq) == {seq[i] : i \in DOMAIN seq}

\* words.filter(keep)
RECURSIVE FilterOut(_, _)
FilterOut(seq, ids) ==
    IF seq = <<>> THEN <<>>
    ELSE IF Head(seq) \in ids THEN FilterOut(Tail(seq), ids)
    ELSE <<Head(seq)>> \o FilterOut(Tail(seq), ids)

\* useState(null)
NoVocabulary == [set |-> FALSE, list |-> <<>>]

SomeVocabulary(list) == [set |-> TRUE, list |-> list]

NoTimer == [kind |-> "none", wordId |-> 0, knownWords |-> <<>>,
            vocabulary |-> <<>>, currentIndex |-> 0]

\* what JSON.parse(localStorage.getItem(KNOWN_WORDS_KEY)) may find: lists of
\* word ids without repetition
StoredLists ==
    {seq \in UNION {[1..n -> Keys] : n \in 0..NumKeys} :
        \A i \in DOMAIN seq, j \in DOMAIN seq : seq[i] = seq[j] => i = j}

\* App before it is mounted
AppIdle ==
    /\ vocabulary = NoVocabulary
    /\ currentIndex = 0
    /\ knownWords = <<>>
    /\ exitDirection = "null"
    /\ loading = TRUE
    /\ error = FALSE
    /\ localStorage = <<>>
    /\ timer = NoTimer
    /\ fetches = {}

\* the render: a FlashCard is mounted for vocabulary[currentIndex]
CardShown ==
    /\ ~loading /\ ~error
    /\ vocabulary.set
    /\ currentIndex < Len(vocabulary.list)

CurrentWord == vocabulary.list[currentIndex + 1]

\* the effect's fetch resolves: data.words without the effect's knownWords
VocabularyArrives(snapshot) ==
    /\ snapshot \in fetches
    /\ fetches' = fetches \ {snapshot}
    /\ vocabulary' = SomeVocabulary(FilterOut(AllWords, Range(snapshot)))
    /\ loading' = FALSE
    /\ UNCHANGED <<currentIndex, knownWords, exitDirection, error, localStorage, timer>>
    /\ UNCHANGED <<file, definitions, http, buildVars, now, dbPromise, store, apiVars, cardVars>>

\* the effect's fetch fails or answers with an error status
VocabularyFails(snapshot) ==
    /\ snapshot \in fetches
    /\ fetches' = fetches \ {snapshot}
    /\ error' = TRUE
    /\ loading' = FALSE
    /\ UNCHANGED <<vocabulary, currentIndex, knownWords, exitDirection, localStorage, timer>>
    /\ UNCHANGED <<file, definitions, http, buildVars, now, dbPromise, store, apiVars, cardVars>>

\* handleKnown(wordId) and handleReview() up to their setTimeout
StartTransition(kind, direction) ==
    /\ CardShown
    /\ exitDirection = "null"
    /\ exitDirection' = direction
    /\ timer' = [kind |-> kind, wordId |-> CurrentWord, knownWords |-> knownWords,
                 vocabulary |-> vocabulary.list, currentIndex |-> currentIndex]
    /\ UNCHANGED <<vocabulary, currentIndex, knownWords, loading, error, localStorage, fetches>>
    /\ UNCHANGED <<file, definitions, http, buildVars, now, dbPromise, store, apiVars, cardVars>>

HandleKnown ==
    /\ Len(knownWords) < MaxKnown
    /\ Cardinality(fetches) < MaxFetches
    /\ StartTransition("known", "right")

HandleReview == StartTransition("review", "left")

\* the callback of handleKnown's setTimeout; the effect on knownWords follows
KnownTimeout ==
    /\ timer.kind = "known"
    /\ LET updatedKnownWords == Append(timer.knownWords, timer.wordId)
           filteredWords == FilterOut(timer.vocabulary, {timer.wordId})
       IN  /\ knownWords' = updatedKnownWords
           /\ localStorage' = updatedKnownWords
           /\ vocabulary' = SomeVocabulary(filteredWords)
           /\ currentIndex' = IF Len(filteredWords) > 0
                                  /\ timer.currentIndex >= Len(filteredWords)
                               THEN 0 ELSE currentIndex
           /\ fetches' = fetches \cup {updatedKnownWords}
    /\ exitDirection' = "null"
    /\ timer' = NoTimer
    /\ UNCHANGED <<loading, error>>
    /\ UNCHANGED <<file, definitions, http, buildVars, now, dbPromise, store, apiVars, cardVars>>

\* the callback of handleReview's setTimeout
ReviewTimeout ==
    /\ timer.kind = "review"
    /\ currentIndex' = IF Len(timer.vocabulary) > 1
                        THEN (timer.currentIndex + 1) % Len(timer.vocabulary)
                        ELSE currentIndex
    /\ exitDirection' = "null"
    /\ timer' = NoTimer
    /\ UNCHANGED <<vocabulary, knownWords, loading, error, localStorage, fetches>>
    /\ UNCHANGED <<file, definitions, http, buildVars, now, dbPromise, store, apiVars, cardVars>>

\* the Reset Progress button of the all-known screen
ResetProgress ==
    /\ ~loading /\ ~error
    /\ ~vocabulary.set \/ Len(vocabulary.list) = 0
    /\ Len(knownWords) > 0
    /\ Cardinality(fetches) < MaxFetches
    /\ localStorage' = <<>>
    /\ knownWords' = <<>>
    /\ fetches' = fetches \cup {<<>>}
    /\ UNCHANGED <<vocabulary, currentIndex, exitDirection, loading, error, timer>>
    /\ UNCHANGED <<file, definitions, http, buildVars, now, dbPromise, store, apiVars, cardVars>>

\* the build script not run: no words read, the map empty
BuildIdle ==
    /\ words = <<>>
    /\ wordIndex = 1
    /\ definitionsMap = EmptyMap

\* the server before its first request, with an empty definitions.json
ServerIdle ==
    /\ file = [ok |-> TRUE, map |-> EmptyMap]
    /\ definitions = NotLoaded
    /\ http = NoHttp
    /\ BuildIdle
    /\ AppIdle

\* res.status(code).json(body): definitions and rae_link as the body holds them
Response(method, q, code, defs, link) ==
    [method |-> method, type |-> q.type, wordId |-> q.value, status |-> code,
     definitions |-> defs, rae_link |-> link]

\* req.query.wordId: absent, one string, or an array when the parameter repeats
Queries ==
    {[type |-> "undefined", value |-> ""], [type |-> "object", value |-> ""]}
        \cup {[type |-> "string", value |-> v] :
                v \in StoredIds \cup {"", "w0", "constructor"}}

\* the names every object parsed from JSON inherits from Object.prototype
ObjectPrototype == {"constructor"}

\* definitionsMap[wordId]: an own property, else an inherited one, else undefined
Property(map, name) ==
    IF name \in DOMAIN map
    THEN [truthy |-> TRUE, definitions |-> SomeDefs(map[name].definitions),
          rae_link |-> map[name].rae_link]
    ELSE IF name \in ObjectPrototype
    THEN [truthy |-> TRUE, definitions |-> NoDefs, rae_link |-> "undefined"]
    ELSE [truthy |-> FALSE, definitions |-> NoDefs, rae_link |-> "undefined"]

\* !wordId || typeof wordId !== 'string'
BadWordId(q) == q.type # "string" \/ q.value = ""

\* loadDefinitions(): parse the file once, keep the map
LoadDefinitions == IF definitions.loaded THEN definitions ELSE [loaded |-> file.ok, map |-> file.map]

\* handler(req, res)
Handler(method, q) ==
    /\ file' = file
    /\ IF method # "GET"
       THEN /\ http' = Response(method, q, 405, NoDefs, "undefined")
            /\ definitions' = definitions
       ELSE IF BadWordId(q)
       THEN /\ http' = Response(method, q, 400, SomeDefs(<<>>), "undefined")
            /\ definitions' = definitions
       ELSE LET loaded == LoadDefinitions
                wordData == Property(loaded.map, q.value)
            IN  /\ definitions' = IF loaded.loaded THEN loaded ELSE definitions
                /\ http' = IF ~loaded.loaded
                           THEN Response(method, q, 500, SomeDefs(<<>>), "undefined")
                           ELSE IF ~wordData.truthy
                           THEN Response(method, q, 404, SomeDefs(<<>>), "undefined")
                           ELSE Response(method, q, 200, wordData.definitions,
                                         wordData.rae_link)
    /\ UNCHANGED <<now, dbPromise, store, apiVars, cardVars, buildVars, appVars>>

InitHandler ==
    /\ now = 0
    /\ dbPromise = "null"
    /\ store = EmptyStore
    /\ calls = NoCalls
    /\ evictFaults = "none"
    /\ ret = NoRet
    /\ recency = <<>>
    /\ activeId = 1
    /\ ui = InitUi
    /\ reqs = EmptyBag
    /\ file \in Files
    /\ definitions = NotLoaded
    /\ http = NoHttp
    /\ BuildIdle
    /\ AppIdle

InitBuild ==
    /\ now = 0
    /\ dbPromise = "null"
    /\ store = EmptyStore
    /\ calls = NoCalls
    /\ evictFaults = "none"
    /\ ret = NoRet
    /\ recency = <<>>
    /\ activeId = 1
    /\ ui = InitUi
    /\ reqs = EmptyBag
    /\ file = [ok |-> TRUE, map |-> EmptyMap]
    /\ definitions = NotLoaded
    /\ http = NoHttp
    /\ words \in Vocabularies
    /\ wordIndex = 1
    /\ definitionsMap = EmptyMap
    /\ AppIdle

NextBuild == BuildStep

SpecBuild == InitBuild /\ [][NextBuild]_vars

\* App mounted: knownWords read from localStorage, the first fetch issued
InitKnown ==
    /\ now = 0
    /\ dbPromise = "null"
    /\ store = EmptyStore
    /\ calls = NoCalls
    /\ evictFaults = "none"
    /\ ret = NoRet
    /\ recency = <<>>
    /\ activeId = 1
    /\ ui = InitUi
    /\ reqs = EmptyBag
    /\ file = [ok |-> TRUE, map |-> EmptyMap]
    /\ definitions = NotLoaded
    /\ http = NoHttp
    /\ BuildIdle
    /\ localStorage \in StoredLists
    /\ knownWords = localStorage
    /\ vocabulary = NoVocabulary
    /\ currentIndex = 0
    /\ exitDirection = "null"
    /\ loading = TRUE
    /\ error = FALSE
    /\ timer = NoTimer
    /\ fetches = {knownWords}

NextKnown ==
    \/ \E snapshot \in fetches : VocabularyArrives(snapshot)
    \/ \E snapshot \in fetches : VocabularyFails(snapshot)
    \/ HandleKnown
    \/ HandleReview
    \/ KnownTimeout
    \/ ReviewTimeout
    \/ ResetProgress

SpecKnown == InitKnown /\ [][NextKnown]_vars

NextHandler == \E method \in {"GET", "POST"}, q \in Queries : Handler(method, q)

SpecHandler == InitHandler /\ [][NextHandler]_vars

InitCache ==
    /\ now = 0
    /\ dbPromise = "null"
    /\ store = EmptyStore
    /\ calls = NoCalls
    /\ evictFaults = "none"
    /\ ret = NoRet
    /\ recency = <<>>
    /\ activeId = 1
    /\ ui = InitUi
    /\ reqs = EmptyBag
    /\ ServerIdle

NextCache ==
    \/ Tick
    \/ \E k \in Keys : GetCachedDefinition(k)
    \/ \E k \in Keys : \E v \in ApiValues(k) : CachePut(k, v)
    \/ \E k \in Keys : CacheEvict(k)
    \/ \E d \in AgeChoices : ClearOldEntries(d)
    \/ GetCacheSize
    \/ ClearCache

SpecCache == InitCache /\ [][NextCache]_vars

\* -------------------------------------------- sequential inserts and lookups
\* The facade used as its LRU contract describes it: distinct keys inserted
\* with cacheDefinition one call after the other, entries read with
\* getCachedDefinition, no request failing.  recency records the order of the
\* touches.
InRecency(k) == \E i \in 1..Len(recency) : recency[i] = k

MoveToEnd(q, k) == Append(SelectSeq(q, LAMBDA x : x # k), k)

LruInsert(k, v) ==
    /\ ~InRecency(k)
    /\ calls = NoCalls
    /\ dbPromise' = "resolved"
    /\ store' = PutOutcome(store, k, v, "resolved", "none").store
    /\ calls' = (k :> v) @@ calls
    /\ recency' = Append(recency, k)
    /\ UNCHANGED <<srvVars, now, evictFaults, ret, cardVars>>

LruEvict(k) ==
    /\ k \in DOMAIN calls
    /\ store' = EvictIfNeeded(store, "none", {})
    /\ calls' = Without(calls, {k})
    /\ UNCHANGED <<srvVars, now, dbPromise, evictFaults, ret, recency, cardVars>>

LruLookup(k) ==
    LET out == GetOutcome(store, k, "resolved", "none")
    IN  /\ dbPromise' = "resolved"
        /\ store' = out.store
        /\ recency' = IF out.res.found THEN MoveToEnd(recency, k) ELSE recency
        /\ UNCHANGED <<srvVars, now, calls, evictFaults, ret, cardVars>>

NextLru ==
    \/ Tick
    \/ \E k \in Keys : \E v \in ApiValues(k) : LruInsert(k, v)
    \/ \E k \in Keys : LruEvict(k)
    \/ \E k \in Keys : LruLookup(k)

SpecLru == InitCache /\ [][NextLru]_vars

\* ------------------------------------------------------------ the flashcard
\* One FlashCard is mounted at a time.  An activation of fetchDefinitions is a
\* record in reqs: wid is its requestedWordId, pc the await it is suspended at,
\* data the body the remote returned, ref what its component's
\* currentWordIdRef holds: 0 while the component is mounted (the ref follows
\* activeId), the ref's last value once the component is unmounted.
\* The reset effect of a word change runs in the step of the change.
\* mutant of NewReq: the fetch is issued without awaiting the cache lookup
NewReqAtFetch(k) == [wid |-> k, pc |-> "fetch", ref |-> 0, data |-> NullRes]

NewReq(k) == [wid |-> k, pc |-> "lookup", ref |-> 0, data |-> NullRes]

Mounted(r) == r.ref = 0

RefOf(r) == IF Mounted(r) THEN activeId ELSE r.ref

\* mutant of IsStale: the activation never finds itself stale
IsStaleNever(r) == FALSE

\* currentWordIdRef.current !== requestedWordId
IsStale(r) == RefOf(r) # r.wid

\* mutant of IsCacheHit: any cached entry is a hit
IsCacheHitAny(cached) == cached.found

\* mutant of IsCacheHit: the cache is never trusted
IsCacheHitNever(cached) == FALSE

\* cached && !isPlaceholder(cached.definitions)
IsCacheHit(cached) == cached.found /\ ~isPlaceholder(cached.definitions)

\* mutant of ShouldCache: every body is cached
ShouldCacheAlways(data) == TRUE

\* !isPlaceholder(data.definitions)
ShouldCache(data) == ~isPlaceholder(data.definitions)

\* reqs without one copy of r, and with one copy of r more
Returned(r) == reqs (-) SetToBag({r})

Moved(r, r2) == (reqs (-) SetToBag({r})) (+) SetToBag({r2})

\* mutant of Dropped: the finally block clears loading whatever the word
DroppedClearsLoading(r) ==
    IF Mounted(r) THEN [ui EXCEPT !.loading = FALSE, !.dropped = TRUE] ELSE ui

\* the state updates of an activation: dropped if its component is unmounted
Dropped(r) == IF Mounted(r) THEN [ui EXCEPT !.dropped = TRUE] ELSE ui

Shown(r, v) ==
    IF Mounted(r)
    THEN [ui EXCEPT !.definitions = SomeDefs(v.definitions), !.raeLink = v.rae_link,
                    !.loading = FALSE, !.show = TRUE, !.src = r.wid]
    ELSE ui

\* mutant of Failed: the catch block sets the error, the flag is left as it was
FailedKeepsLoading(r, msg) ==
    IF Mounted(r) THEN [ui EXCEPT !.error = msg] ELSE ui

Failed(r, msg) ==
    IF Mounted(r) THEN [ui EXCEPT !.error = msg, !.loading = FALSE] ELSE ui

\* mutant of Deliver: the end of cacheDefinition lands in the catch block
DeliverAborted(r) == Failed(r, "Could not load definitions")

\* the final stale check, the three setState calls and the finally block
Deliver(r) == IF IsStale(r) THEN Dropped(r) ELSE Shown(r, r.data)

\* what the remote may answer with for word k
RemoteContents(k) == {RealValue(k), PendingValue(k), EmptyValue(k)}

Responses == {"ok", "404", "500", "rejected"}

ErrorText(resp) ==
    IF resp = "404" THEN "No definitions available"
    ELSE IF resp = "500" THEN "Failed to load definitions"
    ELSE "Failed to fetch"

\* renderDefinitionsButton: the error with its Retry button is rendered
ErrorBanner(u) == ~u.loading /\ u.error # "null"

\* fetchDefinitions up to its first await
StartFetch ==
    /\ BagCardinality(reqs) < MaxReq
    /\ reqs' = reqs (+) SetToBag({NewReq(activeId)})
    /\ ui' = [ui EXCEPT !.loading = TRUE, !.error = "null"]

\* the word prop of the mounted card changes: the reset effect
SelectWord(k) ==
    /\ k # activeId
    /\ activeId' = k
    /\ ui' = InitUi
    /\ UNCHANGED <<srvVars, now, dbPromise, store, apiVars, reqs>>

\* an activation once its component is unmounted: the ref keeps its value
Unmounted(r) == IF Mounted(r) THEN [r EXCEPT !.ref = activeId] ELSE r

\* App renders a card with another key: the card is unmounted, a new one mounted
Remount(k) ==
    /\ k # activeId
    /\ activeId' = k
    /\ ui' = InitUi
    /\ reqs' = [x \in {Unmounted(r) : r \in BagToSet(reqs)} |->
                  CopiesIn(x, reqs)
                  + (IF x.ref = activeId THEN CopiesIn([x EXCEPT !.ref = 0], reqs) ELSE 0)]
    /\ UNCHANGED <<srvVars, now, dbPromise, store, apiVars>>

\* handleDefinitionsClick, on the button rendered when neither loading nor error
ClickDefinitions ==
    /\ ~ui.loading /\ ui.error = "null"
    /\ IF ui.definitions.set
       THEN /\ ui' = [ui EXCEPT !.show = ~ui.show]
            /\ UNCHANGED reqs
       ELSE StartFetch
    /\ UNCHANGED <<srvVars, now, dbPromise, store, apiVars, activeId>>

\* handleRetry, on the button rendered with the error
Retry ==
    /\ ~ui.loading /\ ui.error # "null"
    /\ IF ui.definitions.set
       THEN /\ ui' = [ui EXCEPT !.error = "null"]
            /\ UNCHANGED reqs
       ELSE StartFetch
    /\ UNCHANGED <<srvVars, now, dbPromise, store, apiVars, activeId>>

\* handleCloseModal and the Escape key
CloseModal ==
    /\ ui.show
    /\ ui' = [ui EXCEPT !.show = FALSE]
    /\ UNCHANGED <<srvVars, now, dbPromise, store, apiVars, activeId, reqs>>

\* await getCachedDefinition(requestedWordId) and what follows up to the fetch
\* the same with the open settling as o and the request named by fault failing
LookupStep(r, o, fault) ==
    LET db == OpenDB(o)
        out == GetOutcome(store, r.wid, db, fault)
    IN  /\ dbPromise' = db
        /\ store' = out.store
        /\ IF IsStale(r)
           THEN /\ reqs' = Returned(r)
                /\ ui' = Dropped(r)
           ELSE IF IsCacheHit(out.res)
           THEN /\ reqs' = Returned(r)
                /\ ui' = Shown(r, out.res)
           ELSE /\ reqs' = Moved(r, [r EXCEPT !.pc = "fetch"])
                /\ ui' = ui

ReqLookup(r) ==
    /\ r \in BagToSet(reqs)
    /\ r.pc = "lookup"
    /\ \E o \in OpenOutcomes, fault \in {"none", "get", "touch"} : LookupStep(r, o, fault)
    /\ UNCHANGED <<srvVars, now, apiVars, activeId>>

\* await fetch(...) and the response's status
ReqFetch(r, resp) ==
    /\ r \in BagToSet(reqs)
    /\ r.pc = "fetch"
    /\ IF resp = "ok" /\ ~IsStale(r)
           THEN /\ reqs' = Moved(r, [r EXCEPT !.pc = "json"])
                /\ ui' = ui
           ELSE /\ reqs' = Returned(r)
                /\ ui' = IF ~IsStale(r) THEN Failed(r, ErrorText(resp))
                         ELSE IF resp = "rejected" THEN ui
                         ELSE Dropped(r)
    /\ UNCHANGED <<srvVars, now, dbPromise, store, apiVars, activeId>>

\* await response.json() and what follows up to cacheDefinition
ReqJson(r, body) ==
    /\ r \in BagToSet(reqs)
    /\ r.pc = "json"
    /\ IF IsStale(r)
       THEN /\ reqs' = Returned(r)
            /\ ui' = Dropped(r)
       ELSE IF ShouldCache(body)
       THEN /\ reqs' = Moved(r, [r EXCEPT !.pc = "put", !.data = body])
            /\ ui' = ui
       ELSE /\ reqs' = Returned(r)
            /\ ui' = Deliver([r EXCEPT !.data = body])
    /\ UNCHANGED <<srvVars, now, dbPromise, store, apiVars, activeId>>

\* the body cannot be parsed: response.json() rejects
ReqJsonFails(r) ==
    /\ r \in BagToSet(reqs)
    /\ r.pc = "json"
    /\ reqs' = Returned(r)
    /\ ui' = IF IsStale(r) THEN ui ELSE Failed(r, "Unexpected token")
    /\ UNCHANGED <<srvVars, now, dbPromise, store, apiVars, activeId>>

\* mutant of ReqPut: the body is stored under the word the card shows now
ReqPutUnderActive(r) ==
    /\ r \in BagToSet(reqs)
    /\ r.pc = "put"
    /\ \E o \in OpenOutcomes, fault \in {"none", "put"} :
        LET db == OpenDB(o)
            out == PutOutcome(store, activeId, r.data, db, fault)
        IN  /\ dbPromise' = db
            /\ store' = out.store
            /\ IF out.written
               THEN /\ reqs' = Moved(r, [r EXCEPT !.pc = "evict"])
                    /\ ui' = ui
               ELSE /\ reqs' = Returned(r)
                    /\ ui' = Deliver(r)
    /\ UNCHANGED <<srvVars, now, apiVars, activeId>>

\* await cacheDefinition(...): its put transaction
ReqPut(r) ==
    /\ r \in BagToSet(reqs)
    /\ r.pc = "put"
    /\ \E o \in OpenOutcomes, fault \in {"none", "put"} :
        LET db == OpenDB(o)
            out == PutOutcome(store, r.wid, r.data, db, fault)
        IN  /\ dbPromise' = db
            /\ store' = out.store
            /\ IF out.written
               THEN /\ reqs' = Moved(r, [r EXCEPT !.pc = "evict"])
                    /\ ui' = ui
               ELSE /\ reqs' = Returned(r)
                    /\ ui' = Deliver(r)
    /\ UNCHANGED <<srvVars, now, apiVars, activeId>>

\* await cacheDefinition(...): its evictIfNeeded transaction, and the rest
ReqEvict(r) ==
    /\ r \in BagToSet(reqs)
    /\ r.pc = "evict"
    /\ \E c \in EvictChoices(store) :
        /\ store' = EvictIfNeeded(store, c[1], c[2])
        /\ evictFaults' = Worst(evictFaults, c[1])
    /\ reqs' = Returned(r)
    /\ ui' = Deliver(r)
    /\ UNCHANGED <<srvVars, now, dbPromise, calls, ret, recency, activeId>>

\* The database outlives the page: the card starts on what the facade was
\* given before, at most MAX_ENTRIES entries.
PersistedStores ==
    UNION {{s \in [ks -> {Entry(v, 0) : v \in UNION {ApiValues(k) : k \in Keys}}] :
                \A k \in ks : Lookup(s, k) \in ApiValues(k)} :
            ks \in {x \in SUBSET Keys : Cardinality(x) <= MAX_ENTRIES}}

InitCard ==
    /\ now = 0
    /\ dbPromise = "null"
    /\ store \in PersistedStores
    /\ calls = NoCalls
    /\ evictFaults = "none"
    /\ ret = NoRet
    /\ recency = <<>>
    /\ activeId \in Keys
    /\ ui = InitUi
    /\ reqs = EmptyBag
    /\ ServerIdle

\* FlashCard on its own: the word prop of the one mounted card changes
NextCard ==
    \/ \E k \in Keys : SelectWord(k)
    \/ ClickDefinitions
    \/ Retry
    \/ CloseModal
    \/ \E r \in BagToSet(reqs) : ReqLookup(r)
    \/ \E r \in BagToSet(reqs) : \E resp \in Responses : ReqFetch(r, resp)
    \/ \E r \in BagToSet(reqs) : \E body \in RemoteContents(r.wid) : ReqJson(r, body)
    \/ \E r \in BagToSet(reqs) : ReqJsonFails(r)
    \/ \E r \in BagToSet(reqs) : ReqPut(r)
    \/ \E r \in BagToSet(reqs) : ReqEvict(r)

SpecCard == InitCard /\ [][NextCard]_vars

\* FlashCard under App: every word is shown by a card of its own (key = word id)
NextApp ==
    \/ \E k \in Keys : Remount(k)
    \/ ClickDefinitions
    \/ Retry
    \/ CloseModal
    \/ \E r \in BagToSet(reqs) : ReqLookup(r)
    \/ \E r \in BagToSet(reqs) : \E resp \in Responses : ReqFetch(r, resp)
    \/ \E r \in BagToSet(reqs) : \E body \in RemoteContents(r.wid) : ReqJson(r, body)
    \/ \E r \in BagToSet(reqs) : ReqJsonFails(r)
    \/ \E r \in BagToSet(reqs) : ReqPut(r)
    \/ \E r \in BagToSet(reqs) : ReqEvict(r)

SpecApp == InitCard /\ [][NextApp]_vars

\* ------------------------------------------------- the card on one word
\* The card while its word stays the same: the clicks, and the awaits of
\* fetchDefinitions, each of which settles once it is pending.
Settle ==
    \/ \E r \in BagToSet(reqs) : ReqLookup(r)
    \/ \E r \in BagToSet(reqs) : \E resp \in Responses : ReqFetch(r, resp)
    \/ \E r \in BagToSet(reqs) : \E body \in RemoteContents(r.wid) : ReqJson(r, body)
    \/ \E r \in BagToSet(reqs) : ReqJsonFails(r)
    \/ \E r \in BagToSet(reqs) : ReqPut(r)
    \/ \E r \in BagToSet(reqs) : ReqEvict(r)

NextLive ==
    \/ ClickDefinitions
    \/ Retry
    \/ CloseModal
    \/ Settle

SpecLive == InitCard /\ [][NextLive]_vars /\ WF_vars(Settle)

\* ------------------------------------------------ the store is unavailable
\* The facade on a database that cannot be opened: the page starts on a store
\* that holds what was persisted, and every open fails.
InitDown ==
    /\ now = 0
    /\ dbPromise = "null"
    /\ store \in PersistedStores
    /\ calls = NoCalls
    /\ evictFaults = "none"
    /\ ret = NoRet
    /\ recency = <<>>
    /\ activeId = 1
    /\ ui = InitUi
    /\ reqs = EmptyBag
    /\ ServerIdle

NextDown ==
    \/ Tick
    \/ \E k \in Keys : GetCachedDefinition(k) /\ dbPromise' = "rejected"
    \/ \E k \in Keys : \E v \in ApiValues(k) : CachePut(k, v) /\ dbPromise' = "rejected"
    \/ \E d \in AgeChoices : ClearOldEntries(d) /\ dbPromise' = "rejected"
    \/ GetCacheSize /\ dbPromise' = "rejected"
    \/ ClearCache /\ dbPromise' = "rejected"

SpecDown == InitDown /\ [][NextDown]_vars

\* --------------------------------------------------- writes on a full store
\* cacheDefinition alone, called on what an earlier page left in the database
NextWrite ==
    \/ Tick
    \/ \E k \in Keys : \E v \in ApiValues(k) : CachePut(k, v)
    \/ \E k \in Keys : CacheEvict(k)

SpecWrite == InitDown /\ [][NextWrite]_vars

\* ------------------------------------------------- one open for the session
\* Every operation of the facade, the first of them opening a database that
\* holds what an earlier page left in it; the open succeeds or fails.
NextOpen ==
    \/ \E k \in Keys : GetCachedDefinition(k)
    \/ \E k \in Keys : \E v \in ApiValues(k) : CachePut(k, v)
    \/ \E k \in Keys : CacheEvict(k)
    \/ \E d \in AgeChoices : ClearOldEntries(d)
    \/ GetCacheSize
    \/ ClearCache

SpecOpen == InitDown /\ [][NextOpen]_vars

\* ------------------------------------------------------------------ claims

\* C1: read-your-write.  When a cacheDefinition(K, V) with a non-placeholder V
\* has resolved without a storage failure, a getCachedDefinition(K) issued
\* right then returns V's definitions and rae_link.
C1_ReadYourWrite ==
    (ret.op = "cacheDefinition" /\ ret.ok /\ ~isPlaceholder(ret.res.definitions))
        => GetOutcome(store, ret.key, "resolved", "none").res = ret.res

\* C2: a getCachedDefinition(K) for a key the store does not hold returns
\* null and leaves the store as it was; only the put of cacheDefinition(K, V)
\* brings an entry for K into the store.
C2_AbsentStaysAbsent ==
    [][/\ (/\ ret'.op = "getCachedDefinition"
            /\ ret'.key \in Keys \ DOMAIN store
            /\ GetCachedDefinition(ret'.key))
                => (ret'.res = NullRes /\ store' = store)
       /\ \A k \in DOMAIN store' \ DOMAIN store :
            \E v \in ApiValues(k) : CachePut(k, v)]_vars

C2_Witness ==
    /\ ret.op = "getCachedDefinition" /\ ret.ok
    /\ ret.res = NullRes
    /\ ret.key \notin DOMAIN store
    /\ store # EmptyStore

\* C3: LRU order.  Once more than MAX_ENTRIES distinct keys have been inserted
\* and no cacheDefinition is in progress, getCacheSize() is MAX_ENTRIES and the
\* store holds exactly the MAX_ENTRIES most recently touched keys.
MostRecent(n) == {recency[i] : i \in (Len(recency) - n + 1)..Len(recency)}

C3_LruOrder ==
    (calls = NoCalls /\ Len(recency) > MAX_ENTRIES)
        => /\ SizeOutcome(store, "resolved", "none") = MAX_ENTRIES
           /\ DOMAIN store = MostRecent(MAX_ENTRIES)

C5_ExpiryExact ==
    [][\A d \in AgeChoices :
        (ClearOldEntries(d) /\ ret'.ok)
            => /\ DOMAIN store' = {k \in DOMAIN store : store[k].cachedAt >= CutoffTime(d)}
               /\ \A k \in DOMAIN store' : store'[k] = store[k]
               /\ ret'.n = Size(store) - Size(store')]_vars

C7_StalenessGuard ==
    ui.definitions.set
        => /\ ui.src = activeId
           /\ ui.raeLink = LinkText[activeId]
           /\ \E v \in RemoteContents(activeId) : ui.definitions.list = v.definitions

C7_Witness ==
    /\ ui.dropped
    /\ ui.definitions.set /\ ~isPlaceholder(ui.definitions.list)
    /\ ui.src = activeId

\* C8: at most one remote fetch per word is outstanding: no two activations
\* for the same word are between issuing their fetch and reading its body.
AwaitsRemote(r) == r.pc \in {"fetch", "json"}

C8_OneFetchPerWord ==
    \A r1 \in BagToSet(reqs), r2 \in BagToSet(reqs) :
        (r1.wid = r2.wid /\ AwaitsRemote(r1) /\ AwaitsRemote(r2))
            => (r1 = r2 /\ CopiesIn(r1, reqs) = 1)

C10_PlaceholderNotCached ==
    [][\A r \in BagToSet(reqs) : \A body \in RemoteContents(r.wid) :
        (/\ r.pc = "json"
         /\ body.definitions \in {<<>>, <<PENDING>>}
         /\ ReqJson(r, body))
            => /\ store' = store
               /\ reqs' = Returned(r)
               /\ r.wid \notin DOMAIN store
                    => GetOutcome(store', r.wid, "resolved", "none").res = NullRes
               /\ (Mounted(r) /\ activeId = r.wid)
                    => /\ ui'.definitions = SomeDefs(body.definitions)
                       /\ ui'.raeLink = body.rae_link
                       /\ ui'.show /\ ~ui'.loading /\ ui'.error = ui.error]_vars

C10_Witness ==
    /\ ui.definitions = SomeDefs(<<PENDING>>)
    /\ ui.raeLink = LinkText[activeId]
    /\ ui.show
    /\ activeId \notin DOMAIN store
    /\ reqs = EmptyBag

\* C11: an activation for the active word that got a non-placeholder body
\* from the remote and whose put and eviction pass meet no failure ends with
\* that content in the card's state, and a getCachedDefinition for the word
\* yields exactly that definitions list and that link.
C11_FetchedIsCached ==
    [][\A r \in BagToSet(reqs) :
        (/\ r.pc = "evict"
         /\ Mounted(r) /\ r.wid = activeId
         /\ evictFaults' = "none"
         /\ ReqEvict(r))
            => /\ ui'.definitions = SomeDefs(r.data.definitions)
               /\ ui'.raeLink = r.data.rae_link
               /\ GetOutcome(store', r.wid, "resolved", "none").res = r.data]_vars

\* C12: when the fetch of an activation for the active word fails with a
\* network error or a status that is neither 2xx nor 404, the card's state
\* gets the error message and stops loading (the error and its Retry button
\* are rendered), the store is left as it was, and a click on Retry starts a
\* new activation for the word, the same as a first click starts.
TransientFailures == {"500", "rejected"}

C13_NotFoundIsNoError ==
    [][\A r \in BagToSet(reqs) :
        (/\ r.pc = "fetch"
         /\ Mounted(r) /\ r.wid = activeId
         /\ ~ErrorBanner(ui)
         /\ ReqFetch(r, "404"))
            => /\ ~ErrorBanner(ui')
               /\ store' = store]_vars

\* C14: when the database cannot be opened, every operation of the facade is
\* a no-op: the store is left as it was, getCachedDefinition returns null,
\* cacheDefinition resolves with nothing written and no eviction to follow,
\* clearOldEntries and getCacheSize return 0, clearCache resolves, and no
\* call's promise is rejected.
C14_UnavailableIsNoOp ==
    [][dbPromise' = "rejected"
        => /\ store' = store
           /\ calls' = NoCalls
           /\ ~ret'.threw
           /\ ret'.op = "getCachedDefinition" => ret'.res = NullRes
           /\ ret'.op \in {"clearOldEntries", "getCacheSize"} => ret'.n = 0]_vars

C14_Witness ==
    /\ dbPromise = "rejected"
    /\ store # EmptyStore
    /\ ret.op = "clearCache" /\ ~ret.ok /\ ~ret.threw

\* C15: no persistence fault escapes the facade: whichever storage request
\* fails (a read, a write, a count, a delete, a clear), the promise of the
\* exported call that issued it is resolved, never rejected.
C15_NoFaultEscapes == ~ret.threw

\* C16: when getCachedDefinition returns an entry that is not a placeholder
\* for the requested word and that word is still the active one, the
\* activation ends there: the entry's definitions and link are put in the
\* card's state, loading is cleared, the modal is shown, and the activation
\* returns without going on to the remote fetch.
C16_HitSkipsNetwork ==
    [][\A r \in BagToSet(reqs) : \A o \in OpenOutcomes : \A fault \in {"none", "get", "touch"} :
        LET cached == GetOutcome(store, r.wid, OpenDB(o), fault).res
        IN  (/\ r.pc = "lookup" /\ Mounted(r) /\ r.wid = activeId
             /\ cached.found /\ ~isPlaceholder(cached.definitions)
             /\ LookupStep(r, o, fault))
                => /\ reqs' = Returned(r)
                   /\ ui'.definitions = SomeDefs(cached.definitions)
                   /\ ui'.raeLink = cached.rae_link
                   /\ ~ui'.loading /\ ui'.show]_vars

C16_Witness ==
    /\ dbPromise = "resolved"
    /\ activeId \in DOMAIN store
    /\ ~isPlaceholder(store[activeId].definitions)
    /\ ui.definitions = SomeDefs(store[activeId].definitions)
    /\ ui.show /\ ~ui.loading /\ ui.src = activeId
    /\ reqs = EmptyBag

\* C17: once clearCache() has completed successfully the store is empty:
\* getCacheSize() returns 0 and getCachedDefinition(K) returns null for every
\* K; and an empty store stays empty under every step that is not the put of
\* a cacheDefinition.
C17_ClearEmpties ==
    [][/\ (ret'.op = "clearCache" /\ ret'.ok)
            => /\ store' = EmptyStore
               /\ SizeOutcome(store', "resolved", "none") = 0
               /\ \A k \in Keys : GetOutcome(store', k, "resolved", "none").res = NullRes
       /\ (store = EmptyStore /\ ret'.op # "put") => store' = EmptyStore]_vars

C17_Witness ==
    /\ ret.op = "clearCache" /\ ret.ok
    /\ calls # NoCalls
    /\ store = EmptyStore

\* C18: with a definitions map that loads, the handler answers a GET whose
\* wordId is a non-empty string with 200 and that word's stored definitions
\* and rae_link exactly when wordId is a key of the map, and with 404 and an
\* empty definitions list otherwise; it answers a request that is not a GET
\* with 405 and a GET without wordId with 400; and the map it has loaded is
\* the file's map.
C18_HandlerContract ==
    (http.status # 0 /\ file.ok)
        => /\ http.method # "GET" => http.status = 405
           /\ (http.method = "GET" /\ http.type = "undefined") => http.status = 400
           /\ (http.method = "GET" /\ http.type = "string" /\ http.wordId # "")
                => IF http.wordId \in DOMAIN file.map
                   THEN /\ http.status = 200
                        /\ http.definitions = SomeDefs(file.map[http.wordId].definitions)
                        /\ http.rae_link = file.map[http.wordId].rae_link
                   ELSE /\ http.status = 404
                        /\ http.definitions = SomeDefs(<<>>)
           /\ definitions.loaded => definitions.map = file.map

\* C19: a getCachedDefinition(K) that finds an entry returns the entry's
\* definitions and link as stored and leaves them stored unchanged; the
\* entry's cachedAt never decreases, and is the current time when the touch
\* write succeeds; when the touch write fails the store is left as it was and
\* the content is returned all the same.
C19_TouchOnRead ==
    [][\A k \in Keys :
        (/\ ret'.op = "getCachedDefinition" /\ ret'.key = k /\ ret'.res.found
         /\ GetCachedDefinition(k))
            => /\ k \in DOMAIN store
               /\ ret'.res = Lookup(store, k)
               /\ DOMAIN store' = DOMAIN store
               /\ \A j \in DOMAIN store : j # k => store'[j] = store[j]
               /\ store'[k].definitions = store[k].definitions
               /\ store'[k].rae_link = store[k].rae_link
               /\ store'[k].cachedAt >= store[k].cachedAt
               /\ ret'.ok => store'[k].cachedAt = now
               /\ GetOutcome(store, k, "resolved", "touch")
                      = [store |-> store, res |-> Lookup(store, k)]]_vars

C19_Witness ==
    /\ ret.op = "getCachedDefinition" /\ ret.ok /\ ret.res.found
    /\ ret.key \in DOMAIN store
    /\ store[ret.key].cachedAt = now
    /\ now > 0

\* C20: when an activation whose word is not the active word resumes from an
\* await (with a cache result, a response, a body, a failure, or the end of
\* its cache write), the card's definitions, RAE link, loading flag, error
\* message and modal visibility keep their values.
UiState(u) == <<u.definitions, u.raeLink, u.loading, u.error, u.show>>

C20_StaleLeavesUi ==
    [][\A r \in BagToSet(reqs) :
        (/\ r.wid # activeId
         /\ activeId' = activeId
         /\ CopiesIn(r, reqs') < CopiesIn(r, reqs))
            => UiState(ui') = UiState(ui)]_vars

C20_Witness ==
    /\ ui.dropped
    /\ ui.loading
    /\ \E r \in BagToSet(reqs) : r.wid = activeId

C23_LookupBeforeFetch ==
    [][\A q \in BagToSet(reqs') :
        (/\ q.pc = "fetch"
         /\ activeId' = activeId
         /\ CopiesIn(q, reqs') > CopiesIn(q, reqs))
            => /\ reqs' = Moved([q EXCEPT !.pc = "lookup"], q)
               /\ CopiesIn([q EXCEPT !.pc = "lookup"], reqs) > 0
               /\ dbPromise' # "null"]_vars

C23_Witness ==
    /\ dbPromise = "resolved"
    /\ \E r \in BagToSet(reqs) :
        /\ r.pc = "fetch" /\ Mounted(r) /\ r.wid = activeId
        /\ r.wid \notin DOMAIN store
    /\ ui.loading

\* C24: no two cacheDefinition calls for the same word id are in progress at
\* the same time: at most one activation per word is between calling
\* cacheDefinition and its resolution.
InCacheWrite(r) == r.pc \in {"put", "evict"}

C24_NoWriteRace ==
    \A r1 \in BagToSet(reqs), r2 \in BagToSet(reqs) :
        (r1.wid = r2.wid /\ InCacheWrite(r1) /\ InCacheWrite(r2))
            => (r1 = r2 /\ CopiesIn(r1, reqs) = 1)

\* C25: a failing cache read or write does not abort the resolution for the
\* active word.  When the lookup fails (the database does not open, or the
\* get request fails) the activation goes on to the remote fetch as on a
\* miss, the card's state untouched; when the put of a fetched body fails the
\* body's definitions and link are shown all the same, loading is cleared
\* and no error is set.
C25_CacheFaultsContinue ==
    [][\A r \in BagToSet(reqs) :
        (Mounted(r) /\ r.wid = activeId)
            => /\ \A o \in OpenOutcomes : \A fault \in {"none", "get", "touch"} :
                    (/\ r.pc = "lookup"
                     /\ (OpenDB(o) = "rejected" \/ fault = "get")
                     /\ LookupStep(r, o, fault))
                        => /\ reqs' = Moved(r, [r EXCEPT !.pc = "fetch"])
                           /\ ui' = ui
               /\ (r.pc = "put" /\ reqs' = Returned(r) /\ ReqPut(r))
                    => /\ ui'.definitions = SomeDefs(r.data.definitions)
                       /\ ui'.raeLink = r.data.rae_link
                       /\ ui'.show /\ ~ui'.loading
                       /\ ui'.error = "null"]_vars

C25_Witness ==
    /\ dbPromise = "rejected"
    /\ reqs = EmptyBag
    /\ ui.definitions.set /\ ~isPlaceholder(ui.definitions.list)
    /\ ui.show /\ ~ui.loading /\ ui.error = "null"
    /\ ui.src = activeId

\* C26: the eviction pass of a cacheDefinition(K, V) is pending only after
\* its put succeeded, with V stored under K; the call resolves, never
\* rejects, in the step that ends the pass, whichever request of the pass
\* fails; and the pass leaves K's entry stored as it found it.
C26_EvictionNonFatal ==
    [][\A k \in Keys :
        /\ (k \in DOMAIN calls' /\ k \notin DOMAIN calls)
                => /\ ret'.op = "put"
                   /\ k \in DOMAIN store'
                   /\ Lookup(store', k) = calls'[k]
        /\ (k \in DOMAIN calls /\ k \notin DOMAIN calls')
                => /\ ret'.op = "cacheDefinition" /\ ret'.key = k
                   /\ ~ret'.threw
                   /\ k \in DOMAIN store => (k \in DOMAIN store' /\ store'[k] = store[k])]_vars

\* C27: when the card holds placeholder content for the active word, a click
\* on 'See definitions' starts a new activation of fetchDefinitions for that
\* word, which begins with the cache lookup and, the placeholder never being
\* cached, goes on to the remote fetch.
C27_PlaceholderRefetched ==
    [][(/\ ui.definitions.set
        /\ isPlaceholder(ui.definitions.list)
        /\ ClickDefinitions)
            => /\ reqs' = reqs (+) SetToBag({NewReq(activeId)})
               /\ ui'.loading]_vars

\* C28: keys are unique.  The put of a cacheDefinition(K, V2) on a store that
\* holds K replaces K's record by V2's definitions and link with the current
\* time as cachedAt, leaving the number of records and every other record as
\* they were; and an eviction pass that finds at most MAX_ENTRIES records
\* deletes nothing.
C28_PutReplaces ==
    [][\A k \in Keys :
        /\ (k \in DOMAIN store /\ k \notin DOMAIN calls /\ k \in DOMAIN calls')
                => /\ store' = [store EXCEPT ![k] = Entry(calls'[k], now)]
                   /\ SizeOutcome(store', "resolved", "none")
                        = SizeOutcome(store, "resolved", "none")
                   /\ GetOutcome(store', k, "resolved", "none").res = calls'[k]
        /\ (k \in DOMAIN calls /\ k \notin DOMAIN calls' /\ Size(store) <= MAX_ENTRIES)
                => store' = store]_vars

C28_Witness ==
    /\ ret.op = "put" /\ ret.n = 1
    /\ now > 0
    /\ \E k \in DOMAIN calls :
        /\ k \in DOMAIN store
        /\ store[k] = Entry(calls[k], now)
        /\ Size(store) <= MAX_ENTRIES

\* C29: de-duplication in the build of the definitions map.  After any number
\* of words, the map holds exactly the ids seen so far; the entry of an id is
\* the first occurrence with real definitions when there is one (which is the
\* first occurrence when that one is real) and the first occurrence
\* otherwise; so a real entry is never replaced, and the entry is a
\* placeholder only when every occurrence so far is one.
Occurrences(id) == {i \in 1..(wordIndex - 1) : words[i].id = id}

RealOccurrences(id) ==
    {i \in Occurrences(id) : ~IsPendingDefs(DefsOrEmpty(words[i].definitions))}

First(S) == CHOOSE i \in S : \A j \in S : i <= j

C30_KnownStaysHidden ==
    [][/\ (timer.kind = "known" /\ timer' = NoTimer)
            => /\ timer.wordId \in Range(knownWords')
               /\ localStorage' = knownWords'
               /\ timer.wordId \notin Range(vocabulary'.list)
       /\ Range(vocabulary'.list) \cap Range(knownWords') = {}]_vars

\* C31: while exitDirection is set a pending transition stays the only one
\* (Known and Review start none, and exactly one timer is pending), a
\* completed transition either appends its one id to the known list or
\* advances the index, and the known-words list never holds the same id twice.
C31_OneTransitionAtATime ==
    [][/\ exitDirection # "null" => (timer' = timer \/ timer' = NoTimer)
       /\ (exitDirection' # "null") = (timer'.kind # "none")
       /\ (timer.kind # "none" /\ timer' = NoTimer)
            => \/ knownWords' = knownWords /\ vocabulary' = vocabulary
               \/ /\ knownWords' = Append(timer.knownWords, timer.wordId)
                  /\ currentIndex' \in {currentIndex, 0}
       /\ \A i \in DOMAIN knownWords', j \in DOMAIN knownWords' :
            knownWords'[i] = knownWords'[j] => i = j]_vars

\* C32: the database is opened once in a session: the first operation of the
\* facade sets dbPromise and no later operation changes it; once the open has
\* failed every later operation leaves the store as it was, with
\* getCachedDefinition returning null, cacheDefinition writing nothing,
\* clearOldEntries and getCacheSize returning 0 and no promise rejected.
C32_OneOpenPerSession ==
    [][/\ dbPromise' # "null"
       /\ dbPromise # "null" => dbPromise' = dbPromise
       /\ dbPromise = "rejected"
            => /\ store' = store
               /\ calls' = NoCalls
               /\ ~ret'.ok /\ ~ret'.threw
               /\ ret'.op = "getCachedDefinition" => ret'.res = NullRes
               /\ ret'.op # "cacheDefinition" => ret'.n = 0]_vars

C32_Witness ==
    /\ dbPromise = "rejected"
    /\ store # EmptyStore
    /\ ret.op = "getCacheSize" /\ ret.n = 0 /\ ~ret.ok

\* C33: while the word of the card stays the same and every await of
\* fetchDefinitions settles, a card that is loading has its activation in
\* flight, and it comes to a state with loading false and either definitions
\* held or an error message set.
C33_LoadingEnds ==
    /\ [](ui.loading => reqs # EmptyBag)
    /\ ui.loading ~> (~ui.loading /\ (ui.definitions.set \/ ui.error # "null"))

C33_Witness ==
    /\ reqs = EmptyBag
    /\ ~ui.loading
    /\ ui.error = "Failed to fetch"
    /\ ~ui.definitions.set

\* C34: the loading flag of the card is true exactly when an activation of
\* fetchDefinitions for the active word is in flight, and an activation that
\* returns while another one for the active word is still in flight leaves
\* the flag set.
InFlightFor(k, q) == \E r \in BagToSet(q) : r.wid = k

C34_LoadingIffInFlight ==
    /\ [](ui.loading <=> InFlightFor(activeId, reqs))
    /\ [][(BagCardinality(reqs') < BagCardinality(reqs)
            /\ activeId' = activeId
            /\ InFlightFor(activeId, reqs'))
                => ui'.loading]_vars

C36_CacheIntegrity ==
    /\ [](\A k \in DOMAIN store : Lookup(store, k) \in ApiValues(k))
    /\ [][\A k \in DOMAIN store' :
            (k \notin DOMAIN store \/ store'[k] # store[k])
                => Lookup(store', k) = RealValue(k)]_vars

C36_Witness ==
    \E r \in BagToSet(reqs) :
        /\ r.pc = "evict"
        /\ ~Mounted(r)
        /\ r.wid # activeId
        /\ Lookup(store, r.wid) = RealValue(r.wid)
        /\ activeId \notin DOMAIN store

\* C37: whenever App renders a card (not loading, no error, the vocabulary
\* not empty) currentIndex is an index of the vocabulary, and the completion
\* of handleReview moves the index to the next word cyclically and leaves the
\* vocabulary and the known-words list as they were.
CardRendered ==
    /\ ~loading /\ ~error
    /\ vocabulary.set /\ Len(vocabulary.list) > 0

C37_IndexValid ==
    /\ [](CardRendered => currentIndex \in 0..(Len(vocabulary.list) - 1))
    /\ [][(timer.kind = "review" /\ timer' = NoTimer)
            => /\ vocabulary' = vocabulary
               /\ knownWords' = knownWords
               /\ currentIndex' = IF Len(vocabulary.list) > 1
                                  THEN (currentIndex + 1) % Len(vocabulary.list)
                                  ELSE currentIndex]_vars

====
